---- MODULE Spec2Model ----
(***************************************************************************)
(* URL shortener backend: the Link Registry (URLService over the Mongo     *)
(* repository) and the Code Generator (KeyService over the Redis queue).   *)
(*                                                                         *)
(* Strings are sequences of one-character strings, so that parsing and     *)
(* encoding are computed and not assumed.  A Go pointer is a sequence of   *)
(* length 0 (nil) or 1.  Times are integers (one unit = one hour, the      *)
(* unit of the handler's expires_in).                                      *)
(***************************************************************************)
EXTENDS Integers, Sequences, FiniteSets, TLC

(***************************************************************************)
(* Bounds of the model.                                                    *)
(***************************************************************************)
\* last value of the wall clock
MaxTime == 2
\* completed service calls in one run
MaxCalls == 3
\* I/O errors injected in one run
MaxFaults == 1
\* requests served at the same time
MaxProcs == 2

(***************************************************************************)
(* net/url as used by isValidURL: url.Parse restricted to what decides     *)
(* Scheme and Host, for strings over the alphabet below (no '#', '?', '@', *)
(* '[' or control bytes occur in the inputs).                              *)
(***************************************************************************)
Letters == {"a", "b", "c", "h", "n", "p", "u"}

SchemeExtra == {"0", "+", "-", "."}

RECURSIVE IndexFrom(_, _, _)
\* strings.Index from position i: the first position >= i holding c, or 0
IndexFrom(s, c, i) ==
    IF i > Len(s) THEN 0
    ELSE IF s[i] = c THEN i
    ELSE IndexFrom(s, c, i + 1)

HasPrefix(s, p) == Len(s) >= Len(p) /\ SubSeq(s, 1, Len(p)) = p

RECURSIVE getSchemeFrom(_, _)
getSchemeFrom(rawURL, i) ==
    IF i > Len(rawURL)
    THEN [scheme |-> <<>>, rest |-> rawURL, err |-> FALSE]
    ELSE IF rawURL[i] \in Letters
    THEN getSchemeFrom(rawURL, i + 1)
    ELSE IF rawURL[i] \in SchemeExtra
    THEN IF i = 1
         THEN [scheme |-> <<>>, rest |-> rawURL, err |-> FALSE]
         ELSE getSchemeFrom(rawURL, i + 1)
    ELSE IF rawURL[i] = ":"
    THEN IF i = 1
         THEN [scheme |-> <<>>, rest |-> <<>>, err |-> TRUE]
         ELSE [scheme |-> SubSeq(rawURL, 1, i - 1),
               rest |-> SubSeq(rawURL, i + 1, Len(rawURL)),
               err |-> FALSE]
    ELSE [scheme |-> <<>>, rest |-> rawURL, err |-> FALSE]

getScheme(rawURL) == getSchemeFrom(rawURL, 1)

\* the authority of "//authority/path": everything up to the next '/'
Authority(rest) ==
    LET a == SubSeq(rest, 3, Len(rest))
        i == IndexFrom(a, "/", 1)
    IN  IF i > 0 THEN SubSeq(a, 1, i - 1) ELSE a

\* the first path segment: everything before the first '/'
FirstSegment(rest) ==
    LET i == IndexFrom(rest, "/", 1)
    IN  IF i > 0 THEN SubSeq(rest, 1, i - 1) ELSE rest

urlParse(rawURL) ==
    LET s == getScheme(rawURL)
        NoURL == [scheme |-> <<>>, host |-> <<>>, err |-> TRUE]
    IN  IF s.err THEN NoURL
        ELSE IF ~HasPrefix(s.rest, <<"/">>) /\ s.scheme # <<>>
        THEN \* a rootless path is opaque: no host
             [scheme |-> s.scheme, host |-> <<>>, err |-> FALSE]
        ELSE IF ~HasPrefix(s.rest, <<"/">>)
                /\ IndexFrom(FirstSegment(s.rest), ":", 1) > 0
        THEN NoURL
        ELSE IF (s.scheme # <<>> \/ ~HasPrefix(s.rest, <<"/", "/", "/">>))
                /\ HasPrefix(s.rest, <<"/", "/">>)
        THEN IF IndexFrom(Authority(s.rest), " ", 1) > 0
             THEN NoURL
             ELSE [scheme |-> s.scheme, host |-> Authority(s.rest), err |-> FALSE]
        ELSE [scheme |-> s.scheme, host |-> <<>>, err |-> FALSE]

\* mutant: only the scheme is required
isValidURL_SchemeOnly(rawURL) ==
    LET parsedURL == urlParse(rawURL)
    IN  ~parsedURL.err /\ parsedURL.scheme # <<>>

isValidURL(rawURL) ==
    LET parsedURL == urlParse(rawURL)
    IN  ~parsedURL.err /\ parsedURL.scheme # <<>> /\ parsedURL.host # <<>>

(***************************************************************************)
(* The request inputs.                                                     *)
(***************************************************************************)
\* "h://a" and "h://b/p": absolute URLs
URL_A == <<"h", ":", "/", "/", "a">>
URL_B == <<"h", ":", "/", "/", "b", "/", "p">>
\* "a.c": a host name without a scheme;  "n u": not a URL
URL_NoScheme == <<"a", ".", "c">>
URL_NotAURL == <<"n", " ", "u">>
\* "h:a" (opaque), "h:///p" (empty authority): a scheme without a host
URL_Opaque == <<"h", ":", "a">>
URL_EmptyHost == <<"h", ":", "/", "/", "/", "p">>
\* "//a": a host without a scheme;  ":a": missing protocol scheme
URL_NoSchemeHost == <<"/", "/", "a">>
URL_ColonFirst == <<":", "a">>

ValidURLs == {URL_A, URL_B}

InvalidURLs ==
    {URL_NoScheme, URL_NotAURL, URL_Opaque, URL_EmptyHost, URL_NoSchemeHost,
     URL_ColonFirst}

URLs == ValidURLs \cup InvalidURLs

\* expiresIn *time.Duration: nil, or a number of hours
ExpiresIns == {<<>>, <<-1>>, <<0>>}

(***************************************************************************)
(* KeyService: the Redis queue of pre-generated codes, and local           *)
(* generation.                                                             *)
(***************************************************************************)
Base64URL ==
    <<"A", "B", "C", "D", "E", "F", "G", "H", "I", "J", "K", "L", "M", "N", "O", "P",
      "Q", "R", "S", "T", "U", "V", "W", "X", "Y", "Z", "a", "b", "c", "d", "e", "f",
      "g", "h", "i", "j", "k", "l", "m", "n", "o", "p", "q", "r", "s", "t", "u", "v",
      "w", "x", "y", "z", "0", "1", "2", "3", "4", "5", "6", "7", "8", "9", "-", "_">>

Sextet(n) == Base64URL[n + 1]

RECURSIVE EncodeToString(_)
\* base64.URLEncoding.EncodeToString: 3 bytes to 4 characters, '=' padding
EncodeToString(b) ==
    IF Len(b) = 0 THEN <<>>
    ELSE IF Len(b) = 1
    THEN <<Sextet(b[1] \div 4), Sextet((b[1] % 4) * 16), "=", "=">>
    ELSE IF Len(b) = 2
    THEN <<Sextet(b[1] \div 4), Sextet((b[1] % 4) * 16 + b[2] \div 16),
           Sextet((b[2] % 16) * 4), "=">>
    ELSE <<Sextet(b[1] \div 4), Sextet((b[1] % 4) * 16 + b[2] \div 16),
           Sextet((b[2] % 16) * 4 + b[3] \div 64), Sextet(b[3] % 64)>>
         \o EncodeToString(SubSeq(b, 4, Len(b)))

RECURSIVE TrimRight(_, _)
TrimRight(s, c) ==
    IF Len(s) > 0 /\ s[Len(s)] = c THEN TrimRight(SubSeq(s, 1, Len(s) - 1), c) ELSE s

\* the outcomes of rand.Read(b) on 6 bytes that the model draws from:
\* "ABCDEFGH" and "-_-_AAAA" once encoded
RandomBytes == {<<0, 16, 131, 16, 81, 135>>, <<251, 255, 191, 0, 0, 0>>}

\* mutant: base64.StdEncoding ('+' and '/') in place of URLEncoding
generateShortCode_StdEncoding(b) ==
    LET encoded == EncodeToString(b)
        std == [i \in 1..Len(encoded) |->
                   IF encoded[i] = "-" THEN "+"
                   ELSE IF encoded[i] = "_" THEN "/"
                   ELSE encoded[i]]
        code == TrimRight(std, "=")
    IN  IF Len(code) > 8 THEN SubSeq(code, 1, 8) ELSE code

generateShortCode(b) ==
    LET encoded == EncodeToString(b)
        code == TrimRight(encoded, "=")
    IN  IF Len(code) > 8 THEN SubSeq(code, 1, 8) ELSE code

\* codes an external producer has pushed on the queue
PoolCode1 == <<"a", "b", "c", "1", "2", "3">>
PoolCode2 == <<"x", "-", "y", "_", "z", "9", "0">>

InitialPools == {<<>>, <<PoolCode1, PoolCode2>>}

\* redis: "ok" (the server answers) or "down" (no client, or LPop fails)
getFromRedisQueue(queue, redis) ==
    IF redis = "down"
    THEN [code |-> <<>>, err |-> "redis unavailable", queue |-> queue]
    ELSE IF queue = <<>>
    THEN \* redis.Nil
         [code |-> <<>>, err |-> "nil", queue |-> queue]
    ELSE [code |-> Head(queue), err |-> "nil", queue |-> Tail(queue)]

\* mutant: the newest entry is popped (RPop)
GetShortCode_RPop(queue, redis, b) ==
    IF redis = "ok" /\ queue # <<>> /\ queue[Len(queue)] # <<>>
    THEN [code |-> queue[Len(queue)], err |-> "nil",
          queue |-> SubSeq(queue, 1, Len(queue) - 1), generated |-> FALSE]
    ELSE [code |-> generateShortCode(b), err |-> "nil", queue |-> queue,
          generated |-> TRUE]

\* mutant: an unreachable queue is an error of GetShortCode
GetShortCode_RedisRequired(queue, redis, b) ==
    LET r == getFromRedisQueue(queue, redis)
    IN  IF r.err # "nil"
        THEN [code |-> <<>>, err |-> r.err, queue |-> r.queue, generated |-> FALSE]
        ELSE IF r.code # <<>>
        THEN [code |-> r.code, err |-> "nil", queue |-> r.queue, generated |-> FALSE]
        ELSE [code |-> generateShortCode(b), err |-> "nil", queue |-> r.queue,
              generated |-> TRUE]

GetShortCode(queue, redis, b) ==
    LET r == getFromRedisQueue(queue, redis)
    IN  IF r.err = "nil" /\ r.code # <<>>
        THEN [code |-> r.code, err |-> "nil", queue |-> r.queue, generated |-> FALSE]
        ELSE [code |-> generateShortCode(b), err |-> "nil", queue |-> r.queue,
              generated |-> TRUE]

(***************************************************************************)
(* MongoRepository over the short_urls collection: a sequence of documents *)
(* in insertion order, with a unique index on short_code and a non-unique  *)
(* index on original_url.  fault = TRUE: the driver call returns an I/O    *)
(* error and the collection is untouched.                                  *)
(***************************************************************************)
\* mutant: only scheme and host of the URL are kept
NewShortURL_HostOnly(originalURL, shortCode, expiresAt) ==
    [originalURL |-> urlParse(originalURL).scheme \o <<":", "/", "/">>
                        \o urlParse(originalURL).host,
     shortCode |-> shortCode, createdAt |-> 0,
     expiresAt |-> expiresAt, clickCount |-> 0, isActive |-> FALSE]

\* models.ShortURL as built by the service, before the repository's defaults
NewShortURL(originalURL, shortCode, expiresAt) ==
    [originalURL |-> originalURL, shortCode |-> shortCode, createdAt |-> 0,
     expiresAt |-> expiresAt, clickCount |-> 0, isActive |-> FALSE]

\* FindOne: the first document matching the filter, 0 when there is none
FindByCode(coll, shortCode) ==
    IF \E i \in 1..Len(coll) : coll[i].shortCode = shortCode
    THEN CHOOSE i \in 1..Len(coll) :
            /\ coll[i].shortCode = shortCode
            /\ \A j \in 1..(i - 1) : coll[j].shortCode # shortCode
    ELSE 0

FindByOriginal(coll, originalURL) ==
    IF \E i \in 1..Len(coll) : coll[i].originalURL = originalURL
    THEN CHOOSE i \in 1..Len(coll) :
            /\ coll[i].originalURL = originalURL
            /\ \A j \in 1..(i - 1) : coll[j].originalURL # originalURL
    ELSE 0

\* mutant: the collection has no unique index on short_code
InsertOne_NoUniqueIndex(coll, doc, fault) ==
    IF fault THEN [coll |-> coll, err |-> "store error"]
    ELSE [coll |-> Append(coll, doc), err |-> "nil"]

\* mutant: the index on original_url is unique as well
InsertOne_UniqueOriginalURL(coll, doc, fault) ==
    IF fault THEN [coll |-> coll, err |-> "store error"]
    ELSE IF FindByCode(coll, doc.shortCode) # 0 \/ FindByOriginal(coll, doc.originalURL) # 0
    THEN [coll |-> coll, err |-> "duplicate key"]
    ELSE [coll |-> Append(coll, doc), err |-> "nil"]

\* InsertOne under the unique index on short_code
InsertOne(coll, doc, fault) ==
    IF fault THEN [coll |-> coll, err |-> "store error"]
    ELSE IF FindByCode(coll, doc.shortCode) # 0
    THEN [coll |-> coll, err |-> "duplicate key"]
    ELSE [coll |-> Append(coll, doc), err |-> "nil"]

\* mutant: the creation time is left unset and the document starts inactive
CreateShortURL_NoDefaults(coll, shortURL, clock, fault) ==
    LET r == InsertOne(coll, shortURL, fault)
    IN  [coll |-> r.coll, err |-> r.err, doc |-> shortURL]

\* mutant: the document is written although the insert reports an error
CreateShortURL_WritesOnError(coll, shortURL, clock, fault) ==
    LET d == [shortURL EXCEPT !.createdAt = clock, !.isActive = TRUE]
        r == InsertOne(coll, d, fault)
    IN  [coll |-> IF r.err # "nil" THEN Append(coll, d) ELSE r.coll,
         err |-> r.err, doc |-> d]

CreateShortURL(coll, shortURL, clock, fault) ==
    LET d1 == IF shortURL.createdAt = 0
              THEN [shortURL EXCEPT !.createdAt = clock] ELSE shortURL
        d2 == IF ~d1.isActive THEN [d1 EXCEPT !.isActive = TRUE] ELSE d1
        d3 == IF d2.clickCount = 0 THEN [d2 EXCEPT !.clickCount = 0] ELSE d2
        r == InsertOne(coll, d3, fault)
    IN  [coll |-> r.coll, err |-> r.err, doc |-> d3]

GetShortURLByCode(coll, shortCode, fault) ==
    IF fault THEN [doc |-> <<>>, err |-> "store error"]
    ELSE IF FindByCode(coll, shortCode) = 0
    THEN [doc |-> <<>>, err |-> "ErrNoDocuments"]
    ELSE [doc |-> <<coll[FindByCode(coll, shortCode)]>>, err |-> "nil"]

\* mutant: the lookup never finds the document
GetShortURLByOriginal_Miss(coll, originalURL, fault) ==
    IF fault THEN [doc |-> <<>>, err |-> "store error"]
    ELSE [doc |-> <<>>, err |-> "nil"]

GetShortURLByOriginal(coll, originalURL, fault) ==
    IF fault THEN [doc |-> <<>>, err |-> "store error"]
    ELSE IF FindByOriginal(coll, originalURL) = 0
    THEN [doc |-> <<>>, err |-> "nil"]
    ELSE [doc |-> <<coll[FindByOriginal(coll, originalURL)]>>, err |-> "nil"]

\* mutant: $set click_count to 1 in place of $inc
UpdateClickCount_Set(coll, shortCode, fault) ==
    IF fault THEN [coll |-> coll, err |-> "store error"]
    ELSE IF FindByCode(coll, shortCode) = 0
    THEN [coll |-> coll, err |-> "nil"]
    ELSE [coll |-> [coll EXCEPT ![FindByCode(coll, shortCode)].clickCount = 1],
          err |-> "nil"]

\* mutant: the update replaces the document by one holding the new count only
UpdateClickCount_Replace(coll, shortCode, fault) ==
    IF fault THEN [coll |-> coll, err |-> "store error"]
    ELSE IF FindByCode(coll, shortCode) = 0
    THEN [coll |-> coll, err |-> "nil"]
    ELSE [coll |-> [coll EXCEPT ![FindByCode(coll, shortCode)] =
                      [originalURL |-> <<>>, shortCode |-> <<>>, createdAt |-> 0,
                       expiresAt |-> <<>>, clickCount |-> @.clickCount + 1,
                       isActive |-> FALSE]],
          err |-> "nil"]

\* mutant: $inc by -1
UpdateClickCount_Decrement(coll, shortCode, fault) ==
    IF fault THEN [coll |-> coll, err |-> "store error"]
    ELSE IF FindByCode(coll, shortCode) = 0
    THEN [coll |-> coll, err |-> "nil"]
    ELSE [coll |-> [coll EXCEPT ![FindByCode(coll, shortCode)].clickCount = @ - 1],
          err |-> "nil"]

\* UpdateOne with $inc: atomic on the first matching document; no match is no error
UpdateClickCount(coll, shortCode, fault) ==
    IF fault THEN [coll |-> coll, err |-> "store error"]
    ELSE IF FindByCode(coll, shortCode) = 0
    THEN [coll |-> coll, err |-> "nil"]
    ELSE [coll |-> [coll EXCEPT ![FindByCode(coll, shortCode)].clickCount = @ + 1],
          err |-> "nil"]

RepoGetStats(coll, shortCode, fault) == GetShortURLByCode(coll, shortCode, fault)

(***************************************************************************)
(* URLService.  Each operator is one call: it returns the collection, the  *)
(* queue and the clock as the call leaves them, the call's results, and    *)
(* the backend calls it made, in order, each with the error it returned.   *)
(* env holds what the environment decides during the call: the I/O faults  *)
(* and the random bytes.                                                   *)
(***************************************************************************)
\* mutant: an existing record that carries an expiry is not reused
ExistingFound_NoExpiry(existing) ==
    /\ existing.doc # <<>>
    /\ existing.doc[1].expiresAt = <<>>

\* line 38: existing != nil (the lookup's error is dropped)
ExistingFound(existing) == existing.doc # <<>>

\* mutant: a failed lookup of the original URL fails the call
ShortenURL_LookupFails(coll, queue, clock, originalURL, expiresIn, env) ==
    IF ~isValidURL(originalURL)
    THEN [coll |-> coll, queue |-> queue, clock |-> clock, doc |-> <<>>,
          err |-> "ErrInvalidURL", trace |-> <<>>]
    ELSE
    LET existing == GetShortURLByOriginal(coll, originalURL, env.lookupFault)
        key == GetShortCode(queue, env.redis, env.rnd)
        lookupTrace == <<<<"FindByOriginal", existing.err>>>>
        popTrace == <<<<"LPop", getFromRedisQueue(queue, env.redis).err>>>>
        keyTrace == IF key.generated THEN popTrace \o <<<<"generate", "nil">>>>
                    ELSE popTrace
        expiresAt == IF expiresIn # <<>> THEN <<clock + expiresIn[1]>> ELSE <<>>
        shortURL == NewShortURL(originalURL, key.code, expiresAt)
        created == CreateShortURL(coll, shortURL, clock, env.insertFault)
        insertTrace == <<<<"InsertOne", created.err>>>>
    IN  IF existing.err # "nil"
        THEN [coll |-> coll, queue |-> queue, clock |-> clock, doc |-> <<>>,
              err |-> "failed to look up URL", trace |-> lookupTrace]
        ELSE IF ExistingFound(existing)
        THEN [coll |-> coll, queue |-> queue, clock |-> clock, doc |-> existing.doc,
              err |-> "nil", trace |-> lookupTrace]
        ELSE IF key.err # "nil"
        THEN [coll |-> coll, queue |-> key.queue, clock |-> clock, doc |-> <<>>,
              err |-> "failed to generate short code",
              trace |-> lookupTrace \o keyTrace]
        ELSE IF created.err # "nil"
        THEN [coll |-> created.coll, queue |-> key.queue, clock |-> clock,
              doc |-> <<>>, err |-> "failed to create short URL",
              trace |-> lookupTrace \o keyTrace \o insertTrace]
        ELSE [coll |-> created.coll, queue |-> key.queue, clock |-> clock,
              doc |-> <<created.doc>>, err |-> "nil",
              trace |-> lookupTrace \o keyTrace \o insertTrace]

\* mutant: a collision is answered by one more code and one more insert
ShortenURL_Retry(coll, queue, clock, originalURL, expiresIn, env) ==
    IF ~isValidURL(originalURL)
    THEN [coll |-> coll, queue |-> queue, clock |-> clock, doc |-> <<>>,
          err |-> "ErrInvalidURL", trace |-> <<>>]
    ELSE
    LET existing == GetShortURLByOriginal(coll, originalURL, env.lookupFault)
        key == GetShortCode(queue, env.redis, env.rnd)
        lookupTrace == <<<<"FindByOriginal", existing.err>>>>
        popTrace == <<<<"LPop", getFromRedisQueue(queue, env.redis).err>>>>
        keyTrace == IF key.generated THEN popTrace \o <<<<"generate", "nil">>>>
                    ELSE popTrace
        expiresAt == IF expiresIn # <<>> THEN <<clock + expiresIn[1]>> ELSE <<>>
        shortURL == NewShortURL(originalURL, key.code, expiresAt)
        created == CreateShortURL(coll, shortURL, clock, env.insertFault)
        insertTrace == <<<<"InsertOne", created.err>>>>
        fresh == generateShortCode(CHOOSE b \in RandomBytes : b # env.rnd)
        again == CreateShortURL(coll, NewShortURL(originalURL, fresh, expiresAt),
                                clock, env.insertFault)
        retryTrace == <<<<"generate", "nil">>, <<"InsertOne", again.err>>>>
    IN  IF ExistingFound(existing)
        THEN [coll |-> coll, queue |-> queue, clock |-> clock, doc |-> existing.doc,
              err |-> "nil", trace |-> lookupTrace]
        ELSE IF key.err # "nil"
        THEN [coll |-> coll, queue |-> key.queue, clock |-> clock, doc |-> <<>>,
              err |-> "failed to generate short code",
              trace |-> lookupTrace \o keyTrace]
        ELSE IF created.err = "duplicate key" /\ again.err = "nil"
        THEN [coll |-> again.coll, queue |-> key.queue, clock |-> clock,
              doc |-> <<again.doc>>, err |-> "nil",
              trace |-> lookupTrace \o keyTrace \o insertTrace \o retryTrace]
        ELSE IF created.err # "nil"
        THEN [coll |-> created.coll, queue |-> key.queue, clock |-> clock,
              doc |-> <<>>, err |-> "failed to create short URL",
              trace |-> lookupTrace \o keyTrace \o insertTrace]
        ELSE [coll |-> created.coll, queue |-> key.queue, clock |-> clock,
              doc |-> <<created.doc>>, err |-> "nil",
              trace |-> lookupTrace \o keyTrace \o insertTrace]

ShortenURL(coll, queue, clock, originalURL, expiresIn, env) ==
    IF ~isValidURL(originalURL)
    THEN [coll |-> coll, queue |-> queue, clock |-> clock, doc |-> <<>>,
          err |-> "ErrInvalidURL", trace |-> <<>>]
    ELSE
    LET existing == GetShortURLByOriginal(coll, originalURL, env.lookupFault)
        key == GetShortCode(queue, env.redis, env.rnd)
        lookupTrace == <<<<"FindByOriginal", existing.err>>>>
        popTrace == <<<<"LPop", getFromRedisQueue(queue, env.redis).err>>>>
        keyTrace == IF key.generated THEN popTrace \o <<<<"generate", "nil">>>>
                    ELSE popTrace
        expiresAt == IF expiresIn # <<>> THEN <<clock + expiresIn[1]>> ELSE <<>>
        shortURL == NewShortURL(originalURL, key.code, expiresAt)
        created == CreateShortURL(coll, shortURL, clock, env.insertFault)
        insertTrace == <<<<"InsertOne", created.err>>>>
    IN  IF ExistingFound(existing)
        THEN [coll |-> coll, queue |-> queue, clock |-> clock, doc |-> existing.doc,
              err |-> "nil", trace |-> lookupTrace]
        ELSE IF key.err # "nil"
        THEN [coll |-> coll, queue |-> key.queue, clock |-> clock, doc |-> <<>>,
              err |-> "failed to generate short code",
              trace |-> lookupTrace \o keyTrace]
        ELSE IF created.err # "nil"
        THEN [coll |-> created.coll, queue |-> key.queue, clock |-> clock,
              doc |-> <<>>, err |-> "failed to create short URL",
              trace |-> lookupTrace \o keyTrace \o insertTrace]
        ELSE [coll |-> created.coll, queue |-> key.queue, clock |-> clock,
              doc |-> <<created.doc>>, err |-> "nil",
              trace |-> lookupTrace \o keyTrace \o insertTrace]

\* mutant: the expiry check comes first
Validate_ExpiryFirst(shortURL, clock) ==
    IF shortURL.expiresAt # <<>> /\ clock > shortURL.expiresAt[1] THEN "ErrURLExpired"
    ELSE IF ~shortURL.isActive THEN "ErrURLInactive"
    ELSE "nil"

\* mutant: a record without expiresAt counts as expired once the clock has moved on
Validate_NilExpires(shortURL, clock) ==
    IF ~shortURL.isActive THEN "ErrURLInactive"
    ELSE IF shortURL.expiresAt = <<>> /\ clock > shortURL.createdAt THEN "ErrURLExpired"
    ELSE IF shortURL.expiresAt # <<>> /\ clock > shortURL.expiresAt[1] THEN "ErrURLExpired"
    ELSE "nil"

\* mutant: time.Now().Before in place of After
Validate_Before(shortURL, clock) ==
    IF ~shortURL.isActive THEN "ErrURLInactive"
    ELSE IF shortURL.expiresAt # <<>> /\ clock < shortURL.expiresAt[1] THEN "ErrURLExpired"
    ELSE "nil"

\* lines 63-68: the checks on the record GetOriginalURL has fetched
Validate(shortURL, clock) ==
    IF ~shortURL.isActive THEN "ErrURLInactive"
    ELSE IF shortURL.expiresAt # <<>> /\ clock > shortURL.expiresAt[1] THEN "ErrURLExpired"
    ELSE "nil"

\* mutant: a failed increment fails the request
IncrementResult_Propagate(updateErr) ==
    IF updateErr # "nil" THEN "failed to update click count" ELSE "nil"

\* lines 69-73: the increment's error is printed, the request goes on
IncrementResult(updateErr) == "nil"

\* mutant: the click is counted before the record is checked
GetOriginalURL_IncrementFirst(coll, clock, shortCode, env) ==
    LET found == GetShortURLByCode(coll, shortCode, env.lookupFault)
        updated == UpdateClickCount(coll, shortCode, env.updateFault)
        lookupTrace == <<<<"FindByCode", found.err>>>>
        updateTrace == <<<<"UpdateOne", updated.err>>>>
    IN  IF found.err # "nil"
        THEN [coll |-> coll, url |-> <<>>, err |-> "ErrURLNotFound",
              trace |-> lookupTrace, logged |-> FALSE]
        ELSE IF Validate(found.doc[1], clock) # "nil"
        THEN [coll |-> updated.coll, url |-> <<>>, err |-> Validate(found.doc[1], clock),
              trace |-> lookupTrace \o updateTrace, logged |-> FALSE]
        ELSE [coll |-> updated.coll, url |-> found.doc[1].originalURL, err |-> "nil",
              trace |-> lookupTrace \o updateTrace, logged |-> updated.err # "nil"]

GetOriginalURL(coll, clock, shortCode, env) ==
    LET found == GetShortURLByCode(coll, shortCode, env.lookupFault)
        updated == UpdateClickCount(coll, shortCode, env.updateFault)
        lookupTrace == <<<<"FindByCode", found.err>>>>
        updateTrace == <<<<"UpdateOne", updated.err>>>>
    IN  IF found.err # "nil"
        THEN [coll |-> coll, url |-> <<>>, err |-> "ErrURLNotFound",
              trace |-> lookupTrace, logged |-> FALSE]
        ELSE IF Validate(found.doc[1], clock) # "nil"
        THEN [coll |-> coll, url |-> <<>>, err |-> Validate(found.doc[1], clock),
              trace |-> lookupTrace, logged |-> FALSE]
        ELSE IF IncrementResult(updated.err) # "nil"
        THEN [coll |-> updated.coll, url |-> <<>>, err |-> IncrementResult(updated.err),
              trace |-> lookupTrace \o updateTrace, logged |-> FALSE]
        ELSE [coll |-> updated.coll, url |-> found.doc[1].originalURL, err |-> "nil",
              trace |-> lookupTrace \o updateTrace, logged |-> updated.err # "nil"]

\* mutant: reading the stats counts as a click
GetStats_Counting(coll, shortCode, env) ==
    LET found == RepoGetStats(coll, shortCode, env.lookupFault)
    IN  IF found.err # "nil"
        THEN [coll |-> coll, doc |-> <<>>, err |-> "ErrURLNotFound",
              trace |-> <<<<"FindByCode", found.err>>>>]
        ELSE [coll |-> UpdateClickCount(coll, shortCode, FALSE).coll, doc |-> found.doc,
              err |-> "nil", trace |-> <<<<"FindByCode", found.err>>>>]

GetStats(coll, shortCode, env) ==
    LET found == RepoGetStats(coll, shortCode, env.lookupFault)
    IN  IF found.err # "nil"
        THEN [coll |-> coll, doc |-> <<>>, err |-> "ErrURLNotFound",
              trace |-> <<<<"FindByCode", found.err>>>>]
        ELSE [coll |-> coll, doc |-> found.doc, err |-> "nil",
              trace |-> <<<<"FindByCode", found.err>>>>]

(***************************************************************************)
(* URLHandler: the HTTP status each handler answers with, from the error   *)
(* the service returned.                                                   *)
(***************************************************************************)
\* POST /api/v1/shorten
ShortenURLStatus(err) ==
    IF err = "nil" THEN 200
    ELSE IF err = "ErrInvalidURL" THEN 400
    ELSE 500

\* mutant: an expired link is answered like a missing one
RedirectURLStatus_ExpiredAs404(err) ==
    IF err = "nil" THEN 307
    ELSE IF err = "ErrURLNotFound" THEN 404
    ELSE IF err = "ErrURLExpired" THEN 404
    ELSE IF err = "ErrURLInactive" THEN 410
    ELSE 500

\* GET /:code
RedirectURLStatus(err) ==
    IF err = "nil" THEN 307
    ELSE IF err = "ErrURLNotFound" THEN 404
    ELSE IF err = "ErrURLExpired" THEN 410
    ELSE IF err = "ErrURLInactive" THEN 410
    ELSE 500

\* GET /api/v1/:code/stats
GetStatsStatus(err) ==
    IF err = "nil" THEN 200
    ELSE IF err = "ErrURLNotFound" THEN 404
    ELSE 500

(***************************************************************************)
(* The service as a state machine: one action per call of the service.     *)
(* last records the latest completed call: its arguments, its results and *)
(* the state it started from.  prev is the URL and the shortCode of the    *)
(* call before it when that was a successful ShortenURL, and empty         *)
(* otherwise.  seen[c] is the clickCount the latest successful GetStats(c) *)
(* reported, with the number of successful GetOriginalURL(c) since.        *)
(* procs is used by the concurrent specification further down.            *)
(***************************************************************************)
VARIABLES store, pool, now, calls, faults, last, prev, seen, procs

vars == <<store, pool, now, calls, faults, last, prev, seen, procs>>

\* a code no record ever holds
UnknownCode == <<"n", "o", "n", "e">>

\* the code of a document older than the run
ExistingCode == <<"o", "l", "d", "c", "o", "d", "e">>

ExistingDocs ==
    [originalURL : {URL_A}, shortCode : {ExistingCode}, createdAt : {1},
     expiresAt : {<<>>, <<0>>, <<1>>}, clickCount : {0, 1}, isActive : BOOLEAN]

Codes ==
    {PoolCode1, PoolCode2, UnknownCode, ExistingCode}
        \cup {generateShortCode(b) : b \in RandomBytes}

\* the codes clients ask for: every code in use, and one that is not
Requested(coll) == {coll[i].shortCode : i \in 1..Len(coll)} \cup {UnknownCode}

NoFaults == {FALSE}

AnyFaults == BOOLEAN

RedisStates(F) == IF TRUE \in F THEN {"ok", "down"} ELSE {"ok"}

ShortenEnvs(F) ==
    [lookupFault : F, redis : RedisStates(F), rnd : RandomBytes, insertFault : F]

\* the I/O errors an environment injects
Injected(flags) == Len(SelectSeq(flags, LAMBDA f : f))

ResolveEnvs(F) == [lookupFault : F, updateFault : F]

StatsEnvs(F) == [lookupFault : F]

NoCall ==
    [op |-> "none", url |-> <<>>, code |-> <<>>, expiresIn |-> <<>>, err |-> "nil",
     doc |-> <<>>, out |-> <<>>, trace |-> <<>>, logged |-> FALSE, preStore |-> <<>>,
     prePool |-> <<>>, preNow |-> 0, preSeen |-> <<>>]

\* the requests of the concurrent specification: a request that has not begun
Procs == 1..MaxProcs

Idle ==
    [pc |-> "idle", op |-> "none", url |-> <<>>, code |-> <<>>, expiresIn |-> <<>>,
     key |-> <<>>, expiresAt |-> <<>>, doc |-> <<>>, err |-> "nil", out |-> <<>>]

\* the URL, the expiry duration and the shortCode of a successful ShortenURL call
Shortened(call) ==
    IF call.op = "ShortenURL" /\ call.err = "nil"
    THEN <<[url |-> call.url, expiresIn |-> call.expiresIn,
            shortCode |-> call.doc[1].shortCode]>>
    ELSE <<>>

Init ==
    /\ store = <<>>
    /\ pool \in InitialPools
    /\ now = 1
    /\ calls = 0
    /\ faults = 0
    /\ last = NoCall
    /\ prev = <<>>
    /\ seen = [c \in Codes |-> <<>>]
    /\ procs = [p \in Procs |-> Idle]

\* time passes between calls
Tick ==
    /\ now < MaxTime
    /\ now' = now + 1
    /\ UNCHANGED <<store, pool, calls, faults, last, prev, seen, procs>>

ShortenURLCall(F, U) ==
    /\ calls < MaxCalls
    /\ \E originalURL \in U, expiresIn \in ExpiresIns, env \in ShortenEnvs(F) :
          LET r == ShortenURL(store, pool, now, originalURL, expiresIn, env)
              n == Injected(<<env.lookupFault, env.redis = "down", env.insertFault>>)
          IN  /\ faults + n <= MaxFaults
              /\ faults' = faults + n
              /\ store' = r.coll
              /\ pool' = r.queue
              /\ now' = r.clock
              /\ last' = [op |-> "ShortenURL", url |-> originalURL, code |-> <<>>,
                          expiresIn |-> expiresIn, err |-> r.err, doc |-> r.doc,
                          out |-> <<>>, trace |-> r.trace, logged |-> FALSE,
                          preStore |-> store, prePool |-> pool, preNow |-> now,
                          preSeen |-> <<>>]
              /\ prev' = Shortened(last)
    /\ calls' = calls + 1
    /\ UNCHANGED <<seen, procs>>

GetOriginalURLCall(F) ==
    /\ calls < MaxCalls
    /\ \E shortCode \in Requested(store), env \in ResolveEnvs(F) :
          LET r == GetOriginalURL(store, now, shortCode, env)
              n == Injected(<<env.lookupFault, env.updateFault>>)
          IN  /\ faults + n <= MaxFaults
              /\ faults' = faults + n
              /\ store' = r.coll
              /\ last' = [op |-> "GetOriginalURL", url |-> <<>>, code |-> shortCode,
                          expiresIn |-> <<>>, err |-> r.err, doc |-> <<>>,
                          out |-> r.url, trace |-> r.trace, logged |-> r.logged,
                          preStore |-> store, prePool |-> pool, preNow |-> now,
                          preSeen |-> seen[shortCode]]
              /\ seen' = IF r.err = "nil" /\ seen[shortCode] # <<>>
                         THEN [seen EXCEPT ![shortCode] = <<@[1], @[2] + 1>>]
                         ELSE seen
    /\ prev' = Shortened(last)
    /\ calls' = calls + 1
    /\ UNCHANGED <<pool, now, procs>>

GetStatsCall(F) ==
    /\ calls < MaxCalls
    /\ \E shortCode \in Requested(store), env \in StatsEnvs(F) :
          LET r == GetStats(store, shortCode, env)
              n == Injected(<<env.lookupFault>>)
          IN  /\ faults + n <= MaxFaults
              /\ faults' = faults + n
              /\ store' = r.coll
              /\ last' = [op |-> "GetStats", url |-> <<>>, code |-> shortCode,
                          expiresIn |-> <<>>, err |-> r.err, doc |-> r.doc,
                          out |-> <<>>, trace |-> r.trace, logged |-> FALSE,
                          preStore |-> store, prePool |-> pool, preNow |-> now,
                          preSeen |-> seen[shortCode]]
              /\ seen' = IF r.err = "nil"
                         THEN [seen EXCEPT ![shortCode] = <<r.doc[1].clickCount, 0>>]
                         ELSE seen
    /\ prev' = Shortened(last)
    /\ calls' = calls + 1
    /\ UNCHANGED <<pool, now, procs>>

\* the URLs submitted in the runs of Spec
SomeURLs == ValidURLs \cup {URL_NoScheme}

\* the store and the queue answer every call
ShortenURLOk == ShortenURLCall(NoFaults, SomeURLs)

GetOriginalURLOk == GetOriginalURLCall(NoFaults)

GetStatsOk == GetStatsCall(NoFaults)

Next == Tick \/ ShortenURLOk \/ GetOriginalURLOk \/ GetStatsOk

Spec == Init /\ [][Next]_vars

\* the collection as a restart finds it: one document, written by an earlier
\* run or edited out of band (deactivated, expiry changed)
InitExisting ==
    /\ store \in {<<d>> : d \in ExistingDocs}
    /\ pool \in InitialPools
    /\ now = 1
    /\ calls = 0
    /\ faults = 0
    /\ last = NoCall
    /\ prev = <<>>
    /\ seen = [c \in Codes |-> <<>>]
    /\ procs = [p \in Procs |-> Idle]

NextExisting == Tick \/ GetOriginalURLOk \/ GetStatsOk

SpecExisting == InitExisting /\ [][NextExisting]_vars

\* every input string is submitted
ShortenURLEvery == ShortenURLCall(NoFaults, URLs)

NextInputs == Tick \/ ShortenURLEvery

SpecInputs == Init /\ [][NextInputs]_vars

\* any call to the store or the queue may fail with an I/O error, at most
\* MaxFaults times in a run
FaultURLs == {URL_A, URL_NoScheme}


ShortenURLAny == ShortenURLCall(AnyFaults, FaultURLs)

GetOriginalURLAny == GetOriginalURLCall(AnyFaults)

GetStatsAny == GetStatsCall(AnyFaults)

NextFault == Tick \/ ShortenURLAny \/ GetOriginalURLAny \/ GetStatsAny

SpecFault == Init /\ [][NextFault]_vars

(***************************************************************************)
(* The key service on its own.  The queue is filled by a producer outside  *)
(* the server, which reads whatever strings the list holds: the codes of   *)
(* InitialPools, an empty string, a string that is not a code.             *)
(***************************************************************************)
\* "": an empty list entry
EmptyEntry == <<>>

\* "a/b": a list entry that is not a short code
MalformedEntry == <<"a", "/", "b">>

QueuedPools ==
    InitialPools \cup {<<EmptyEntry, PoolCode1>>, <<MalformedEntry, PoolCode2>>}

InitKey ==
    /\ store = <<>>
    /\ pool \in QueuedPools
    /\ now = 1
    /\ calls = 0
    /\ faults = 0
    /\ last = NoCall
    /\ prev = <<>>
    /\ seen = [c \in Codes |-> <<>>]
    /\ procs = [p \in Procs |-> Idle]

\* KeyService.GetShortCode, as ShortenURL calls it
GetShortCodeCall(F) ==
    /\ calls < MaxCalls
    /\ \E redis \in RedisStates(F), rnd \in RandomBytes :
          LET key == GetShortCode(pool, redis, rnd)
              n == Injected(<<redis = "down">>)
              popTrace == <<<<"LPop", getFromRedisQueue(pool, redis).err>>>>
          IN  /\ faults + n <= MaxFaults
              /\ faults' = faults + n
              /\ pool' = key.queue
              /\ last' = [op |-> "GetShortCode", url |-> <<>>, code |-> <<>>,
                          expiresIn |-> <<>>, err |-> key.err, doc |-> <<>>,
                          out |-> key.code,
                          trace |-> IF key.generated
                                    THEN popTrace \o <<<<"generate", "nil">>>>
                                    ELSE popTrace,
                          logged |-> FALSE, preStore |-> store, prePool |-> pool,
                          preNow |-> now, preSeen |-> <<>>]
    /\ prev' = Shortened(last)
    /\ calls' = calls + 1
    /\ UNCHANGED <<store, now, seen, procs>>

\* GET /api/v1/generate: KeyHandler.GenerateKey over GenerateShortCode
GenerateKeyCall ==
    /\ calls < MaxCalls
    /\ \E rnd \in RandomBytes :
          last' = [op |-> "GenerateShortCode", url |-> <<>>, code |-> <<>>,
                   expiresIn |-> <<>>, err |-> "nil", doc |-> <<>>,
                   out |-> generateShortCode(rnd),
                   trace |-> <<<<"generate", "nil">>>>, logged |-> FALSE,
                   preStore |-> store, prePool |-> pool, preNow |-> now,
                   preSeen |-> <<>>]
    /\ prev' = Shortened(last)
    /\ calls' = calls + 1
    /\ UNCHANGED <<store, pool, now, faults, seen, procs>>

GetShortCodeAny == GetShortCodeCall(AnyFaults)

KeyURLs == {URL_A, URL_B}

ShortenURLKey == ShortenURLCall(AnyFaults, KeyURLs)

NextKey == GetShortCodeAny \/ GenerateKeyCall \/ ShortenURLKey

SpecKey == InitKey /\ [][NextKey]_vars

(***************************************************************************)
(* Concurrent requests.  The server runs each request in its own           *)
(* goroutine; a request's calls to the store and to the queue are atomic   *)
(* (FindOne, LPop, InsertOne, UpdateOne) and other requests run between    *)
(* them.  Each request is one call of the service, in the steps of its     *)
(* code; store, pool and now are shared, a request's locals are procs[p].  *)
(* last.preStore keeps the collection the requests started from.           *)
(***************************************************************************)
\* documents of an earlier run that the requests find: active, without expiry
\* or expiring at time 1
ServedDocs ==
    [originalURL : {URL_A}, shortCode : {ExistingCode}, createdAt : {1},
     expiresAt : {<<>>, <<1>>}, clickCount : {1}, isActive : {TRUE}]

InitConc ==
    /\ store \in {<<d>> : d \in ServedDocs}
    /\ pool \in InitialPools
    /\ now = 1
    /\ calls = 0
    /\ faults = 0
    /\ last = [NoCall EXCEPT !.preStore = store]
    /\ prev = <<>>
    /\ seen = [c \in Codes |-> <<>>]
    /\ procs = [p \in Procs |-> Idle]

Finish(p, err, doc, out) ==
    procs' = [procs EXCEPT ![p].pc = "done", ![p].err = err, ![p].doc = doc,
                           ![p].out = out]

\* a request for GET /:code arrives
BeginResolve ==
    \E p \in Procs, shortCode \in Requested(store) :
        /\ procs[p].pc = "idle"
        /\ procs' = [procs EXCEPT ![p].pc = "lookup", ![p].op = "GetOriginalURL",
                                  ![p].code = shortCode]
        /\ UNCHANGED <<store, pool, now, calls, faults, last, prev, seen>>

\* lines 59-68: the lookup by code and the checks on what it returned
ResolveLookup(F) ==
    \E p \in Procs, fault \in F :
        /\ procs[p].pc = "lookup"
        /\ procs[p].op = "GetOriginalURL"
        /\ LET found == GetShortURLByCode(store, procs[p].code, fault)
           IN  IF found.err # "nil"
               THEN Finish(p, "ErrURLNotFound", <<>>, <<>>)
               ELSE IF Validate(found.doc[1], now) # "nil"
               THEN Finish(p, Validate(found.doc[1], now), <<>>, <<>>)
               ELSE procs' = [procs EXCEPT ![p].pc = "update", ![p].doc = found.doc]
        /\ UNCHANGED <<store, pool, now, calls, faults, last, prev, seen>>

\* mutant: the count read at the lookup, plus one, is written back
ResolveUpdate_ReadModifyWrite(F) ==
    \E p \in Procs, fault \in F :
        /\ procs[p].pc = "update"
        /\ store' = [i \in 1..Len(store) |->
                        IF i = FindByCode(store, procs[p].code)
                        THEN [store[i] EXCEPT !.clickCount = procs[p].doc[1].clickCount + 1]
                        ELSE store[i]]
        /\ Finish(p, "nil", procs[p].doc, procs[p].doc[1].originalURL)
        /\ UNCHANGED <<pool, now, calls, faults, last, prev, seen>>

\* lines 69-73: the increment, then the return of the URL read at the lookup
ResolveUpdate(F) ==
    \E p \in Procs, fault \in F :
        /\ procs[p].pc = "update"
        /\ LET updated == UpdateClickCount(store, procs[p].code, fault)
           IN  /\ store' = updated.coll
               /\ IF IncrementResult(updated.err) # "nil"
                  THEN Finish(p, IncrementResult(updated.err), <<>>, <<>>)
                  ELSE Finish(p, "nil", procs[p].doc, procs[p].doc[1].originalURL)
        /\ UNCHANGED <<pool, now, calls, faults, last, prev, seen>>

\* a request for POST /api/v1/shorten arrives
BeginShorten ==
    \E p \in Procs, originalURL \in ValidURLs, expiresIn \in {<<>>, <<0>>} :
        /\ procs[p].pc = "idle"
        /\ procs' = [procs EXCEPT ![p].pc = "lookup", ![p].op = "ShortenURL",
                                  ![p].url = originalURL, ![p].expiresIn = expiresIn]
        /\ UNCHANGED <<store, pool, now, calls, faults, last, prev, seen>>

\* lines 34-40: validation, then the lookup by original URL
ShortenLookup(F) ==
    \E p \in Procs, fault \in F :
        /\ procs[p].pc = "lookup"
        /\ procs[p].op = "ShortenURL"
        /\ IF ~isValidURL(procs[p].url)
           THEN Finish(p, "ErrInvalidURL", <<>>, <<>>)
           ELSE LET existing == GetShortURLByOriginal(store, procs[p].url, fault)
                IN  IF ExistingFound(existing)
                    THEN Finish(p, "nil", existing.doc, <<>>)
                    ELSE procs' = [procs EXCEPT ![p].pc = "getcode"]
        /\ UNCHANGED <<store, pool, now, calls, faults, last, prev, seen>>

\* lines 41-52: the code from the key service, then expiresAt from the clock
ShortenGetCode(F) ==
    \E p \in Procs, redis \in RedisStates(F), rnd \in RandomBytes :
        /\ procs[p].pc = "getcode"
        /\ LET key == GetShortCode(pool, redis, rnd)
           IN  /\ pool' = key.queue
               /\ IF key.err # "nil"
                  THEN Finish(p, "failed to generate short code", <<>>, <<>>)
                  ELSE procs' =
                         [procs EXCEPT
                            ![p].pc = "insert",
                            ![p].key = key.code,
                            ![p].expiresAt =
                                IF procs[p].expiresIn # <<>>
                                THEN <<now + procs[p].expiresIn[1]>> ELSE <<>>]
        /\ UNCHANGED <<store, now, calls, faults, last, prev, seen>>

\* lines 53-56: the insert
ShortenInsert(F) ==
    \E p \in Procs, fault \in F :
        /\ procs[p].pc = "insert"
        /\ LET shortURL == NewShortURL(procs[p].url, procs[p].key, procs[p].expiresAt)
               created == CreateShortURL(store, shortURL, now, fault)
           IN  /\ store' = created.coll
               /\ IF created.err # "nil"
                  THEN Finish(p, "failed to create short URL", <<>>, <<>>)
                  ELSE Finish(p, "nil", <<created.doc>>, <<>>)
        /\ UNCHANGED <<pool, now, calls, faults, last, prev, seen>>

ResolveLookupOk == ResolveLookup(NoFaults)

ResolveUpdateOk == ResolveUpdate(NoFaults)

ShortenLookupOk == ShortenLookup(NoFaults)

ShortenGetCodeOk == ShortenGetCode(NoFaults)

ShortenInsertOk == ShortenInsert(NoFaults)

NextConc ==
    \/ Tick
    \/ BeginResolve
    \/ ResolveLookupOk
    \/ ResolveUpdateOk
    \/ BeginShorten
    \/ ShortenLookupOk
    \/ ShortenGetCodeOk
    \/ ShortenInsertOk

SpecConc == InitConc /\ [][NextConc]_vars

(***************************************************************************)
(* The claims.  A claim about a call is stated of the state right after    *)
(* the call, where last holds the call and the state it started from.      *)
(***************************************************************************)
\* the positions in coll of the documents holding shortCode / originalURL
WithCode(coll, shortCode) == {i \in 1..Len(coll) : coll[i].shortCode = shortCode}

WithURL(coll, originalURL) == {i \in 1..Len(coll) : coll[i].originalURL = originalURL}

\* C1: a successful ShortenURL(U) followed immediately by a second
\* ShortenURL(U) gives two responses with the same shortCode.
C1_SameShortCode ==
    (/\ last.op = "ShortenURL"
     /\ prev # <<>>
     /\ prev[1].url = last.url)
    => /\ last.err = "nil"
       /\ last.doc[1].shortCode = prev[1].shortCode

C1_Witness ==
    /\ last.op = "ShortenURL"
    /\ prev # <<>>
    /\ prev[1].url = last.url
    /\ last.err = "nil"
    /\ now > last.doc[1].createdAt

\* C2: ShortenURL(U, expiresIn) on a store that already holds a record with
\* originalURL = U returns that record and changes nothing: the store (every
\* field of every record, expiresAt included) and the pool are as before, and
\* the one backend call made is the lookup by original URL (no pop, no
\* generation, no insert).
C2_ExistingUnchanged ==
    (/\ last.op = "ShortenURL"
     /\ WithURL(last.preStore, last.url) # {})
    => /\ last.err = "nil"
       /\ \E i \in WithURL(last.preStore, last.url) : last.doc = <<last.preStore[i]>>
       /\ store = last.preStore
       /\ pool = last.prePool
       /\ last.trace = <<<<"FindByOriginal", "nil">>>>

C2_Witness ==
    /\ last.op = "ShortenURL"
    /\ WithURL(last.preStore, last.url) # {}
    /\ last.expiresIn # <<>>
    /\ last.doc # <<>>
    /\ last.doc[1].expiresAt = <<>>
    /\ last.prePool # <<>>

\* C3: ShortenURL on a string that lacks a scheme or lacks a host fails with
\* ErrInvalidURL before any backend call: no record is created and no pool
\* entry is consumed.
C3_InvalidURLRejected ==
    (/\ last.op = "ShortenURL"
     /\ last.url \in InvalidURLs)
    => /\ last.err = "ErrInvalidURL"
       /\ last.doc = <<>>
       /\ last.trace = <<>>
       /\ store = last.preStore
       /\ pool = last.prePool

C3_Witness ==
    /\ last.op = "ShortenURL"
    /\ last.url = URL_Opaque
    /\ last.err = "ErrInvalidURL"
    /\ last.preStore # <<>>
    /\ last.prePool # <<>>

\* C4: GetOriginalURL(code) on a record created without expiry succeeds and
\* returns the record's original URL, at any later time and after any other
\* calls.
C4_NoSpuriousExpiry ==
    \A i \in WithCode(last.preStore, last.code) :
        (/\ last.op = "GetOriginalURL"
         /\ last.preStore[i].expiresAt = <<>>)
        => /\ last.err = "nil"
           /\ last.out = last.preStore[i].originalURL

C4_Witness ==
    \E i \in WithCode(last.preStore, last.code) :
        /\ last.op = "GetOriginalURL"
        /\ last.preStore[i].expiresAt = <<>>
        /\ last.preNow > last.preStore[i].createdAt
        /\ last.preStore[i].clickCount > 0
        /\ last.err = "nil"

\* C5: GetOriginalURL(code) on an active record whose expiresAt is set and
\* lies before the current time fails with ErrURLExpired.
C5_ExpiredRejected ==
    \A i \in WithCode(last.preStore, last.code) :
        (/\ last.op = "GetOriginalURL"
         /\ last.preStore[i].isActive
         /\ last.preStore[i].expiresAt # <<>>
         /\ last.preStore[i].expiresAt[1] < last.preNow)
        => /\ last.err = "ErrURLExpired"
           /\ last.out = <<>>

\* the record was created with expiresIn = -1 hour
C5_Witness ==
    \E i \in WithCode(last.preStore, last.code) :
        /\ last.op = "GetOriginalURL"
        /\ last.preStore[i].isActive
        /\ last.preStore[i].expiresAt = <<last.preStore[i].createdAt - 1>>
        /\ last.err = "ErrURLExpired"

\* the requests for GET /:code with this code
Resolvers(shortCode) ==
    {p \in Procs : procs[p].op = "GetOriginalURL" /\ procs[p].code = shortCode}

AllDone == \A p \in Procs : procs[p].pc = "done"

\* C6: when the requests that ran concurrently have all completed and the
\* code was active and unexpired throughout, every GetOriginalURL(code) among
\* them has succeeded and the record's clickCount is its value before the
\* requests plus the number of those calls.
C6_NoLostClicks ==
    \A i \in 1..Len(last.preStore) :
        (/\ AllDone
         /\ last.preStore[i].isActive
         /\ last.preStore[i].expiresAt # <<>> => last.preStore[i].expiresAt[1] >= now)
        => /\ \A p \in Resolvers(last.preStore[i].shortCode) :
                 /\ procs[p].err = "nil"
                 /\ procs[p].out = last.preStore[i].originalURL
           /\ store[i].clickCount =
                 last.preStore[i].clickCount
                    + Cardinality(Resolvers(last.preStore[i].shortCode))

C6_Witness ==
    /\ AllDone
    /\ Cardinality(Resolvers(ExistingCode)) >= 2
    /\ store[1].clickCount = last.preStore[1].clickCount + Cardinality(Procs)

\* C7: GetStats(code) fails with ErrURLNotFound when no record holds the
\* code and returns the stored record, with its current clickCount,
\* otherwise; either way the store and the pool are unchanged.
C7_StatsReadOnly ==
    last.op = "GetStats"
    => /\ WithCode(last.preStore, last.code) = {}
          => last.err = "ErrURLNotFound" /\ last.doc = <<>>
       /\ \A i \in WithCode(last.preStore, last.code) :
             last.err = "nil" /\ last.doc = <<store[i]>>
       /\ store = last.preStore
       /\ pool = last.prePool

C7_Witness ==
    /\ last.op = "GetStats"
    /\ last.err = "nil"
    /\ last.doc[1].clickCount > 0

\* C8: when GetStats(code) has reported clickCount = k and exactly one
\* successful GetOriginalURL(code) has completed since, the next
\* GetStats(code) reports k + 1.
C8_OneClickCounted ==
    (/\ last.op = "GetStats"
     /\ last.err = "nil"
     /\ last.preSeen # <<>>
     /\ last.preSeen[2] = 1)
    => last.doc[1].clickCount = last.preSeen[1] + 1

C8_Witness ==
    /\ last.op = "GetStats"
    /\ last.err = "nil"
    /\ last.preSeen # <<>>
    /\ last.preSeen[2] = 1

\* C9: GetOriginalURL on a record that is both inactive and past its
\* expiresAt fails with ErrURLInactive, not ErrURLExpired.
C9_InactiveBeforeExpired ==
    \A i \in WithCode(last.preStore, last.code) :
        (/\ last.op = "GetOriginalURL"
         /\ ~last.preStore[i].isActive
         /\ last.preStore[i].expiresAt # <<>>
         /\ last.preStore[i].expiresAt[1] < last.preNow)
        => last.err = "ErrURLInactive"

C9_Witness ==
    \E i \in WithCode(last.preStore, last.code) :
        /\ last.op = "GetOriginalURL"
        /\ ~last.preStore[i].isActive
        /\ last.preStore[i].expiresAt # <<>>
        /\ last.preStore[i].expiresAt[1] < last.preNow
        /\ last.err = "ErrURLInactive"

\* C10: when the lookup has found the record and the record is active and
\* unexpired, GetOriginalURL returns the original URL with no error, also
\* when UpdateClickCount returns an error.
C10_IncrementNeverFails ==
    \A i \in WithCode(last.preStore, last.code) :
        (/\ last.op = "GetOriginalURL"
         /\ last.trace[1] = <<"FindByCode", "nil">>
         /\ last.preStore[i].isActive
         /\ last.preStore[i].expiresAt # <<>> => last.preStore[i].expiresAt[1] >= last.preNow)
        => /\ last.err = "nil"
           /\ last.out = last.preStore[i].originalURL

\* the increment failed, the click is lost, the redirect is served
C10_Witness ==
    \E i \in WithCode(last.preStore, last.code) :
        /\ last.op = "GetOriginalURL"
        /\ last.trace = <<<<"FindByCode", "nil">>, <<"UpdateOne", "store error">>>>
        /\ last.logged
        /\ last.err = "nil"
        /\ last.out = last.preStore[i].originalURL
        /\ store = last.preStore

\* C11: a successful resolve does not wait for the increment: whenever the
\* increment of a request that passed the lookup and the checks is still to
\* be applied, the request has already returned the original URL.
C11_ResponseBeforeIncrement ==
    \A p \in Procs :
        (/\ procs[p].op = "GetOriginalURL"
         /\ procs[p].pc = "update")
        => procs[p].out = procs[p].doc[1].originalURL

\* C12: a store I/O failure on the critical path (the lookup by code of a
\* resolve, the insert of a creation) is answered with HTTP 500, not with the
\* status of NotFound, Expired, Inactive or InvalidURL.
C12_StoreFailureIs500 ==
    /\ (/\ last.op = "GetOriginalURL"
        /\ last.trace[1] = <<"FindByCode", "store error">>)
       => RedirectURLStatus(last.err) = 500
    /\ (/\ last.op = "ShortenURL"
        /\ last.trace # <<>>
        /\ last.trace[Len(last.trace)] = <<"InsertOne", "store error">>)
       => ShortenURLStatus(last.err) = 500

\* C13: whenever ShortenURL returns an error, the records in the store are
\* exactly those present before the call.
C13_NoPartialCreate ==
    (/\ last.op = "ShortenURL"
     /\ last.err # "nil")
    => store = last.preStore

\* the insert was attempted and failed
C13_Witness ==
    /\ last.op = "ShortenURL"
    /\ last.err = "failed to create short URL"
    /\ last.trace[Len(last.trace)][1] = "InsertOne"
    /\ last.preStore # <<>>
    /\ store = last.preStore

\* C14: in every reachable state, under any interleaving of concurrent
\* requests, no two records hold the same shortCode, and no step changes the
\* shortCode of a record.
C14_ShortCodeUniqueImmutable ==
    /\ [](\A i, j \in 1..Len(store) :
             store[i].shortCode = store[j].shortCode => i = j)
    /\ [][\A i \in 1..Len(store) :
             /\ i <= Len(store')
             /\ store'[i].shortCode = store[i].shortCode]_vars

\* two concurrent requests drew the same code: the second insert was refused
C14_Witness ==
    \E p \in Procs :
        /\ procs[p].op = "ShortenURL"
        /\ procs[p].pc = "done"
        /\ procs[p].err = "failed to create short URL"
        /\ WithCode(store, procs[p].key) # {}

\* C15: originalURL is not kept unique under a race: when two concurrent
\* ShortenURL calls for the same URL have both passed the existence check and
\* drawn different codes (held by no record of another URL), both inserts
\* take effect and the store holds two distinct records with that
\* originalURL and different shortCodes.
C15_RaceDuplicatesURL ==
    \A p, q \in Procs :
        (/\ p # q
         /\ procs[p].op = "ShortenURL" /\ procs[q].op = "ShortenURL"
         /\ procs[p].pc = "done" /\ procs[q].pc = "done"
         /\ procs[p].url = procs[q].url
         /\ procs[p].key # <<>> /\ procs[q].key # <<>>
         /\ procs[p].key # procs[q].key
         /\ \A i \in 1..Len(store) :
               store[i].shortCode \in {procs[p].key, procs[q].key}
               => store[i].originalURL = procs[p].url)
        => \E i, j \in 1..Len(store) :
              /\ i # j
              /\ store[i].originalURL = procs[p].url
              /\ store[j].originalURL = procs[p].url
              /\ store[i].shortCode = procs[p].key
              /\ store[j].shortCode = procs[q].key

\* both calls returned success, each with its own shortCode for the same URL
C15_Witness ==
    \E p, q \in Procs :
        /\ p # q
        /\ procs[p].op = "ShortenURL" /\ procs[q].op = "ShortenURL"
        /\ procs[p].pc = "done" /\ procs[q].pc = "done"
        /\ procs[p].err = "nil" /\ procs[q].err = "nil"
        /\ procs[p].url = procs[q].url
        /\ procs[p].doc[1].shortCode # procs[q].doc[1].shortCode
        /\ \E i, j \in 1..Len(store) :
              /\ i # j
              /\ store[i] = procs[p].doc[1]
              /\ store[j] = procs[q].doc[1]
              /\ store[i].originalURL = store[j].originalURL

\* C16: a record's clickCount is 0 when the record is created and is never
\* negative; every step, under any interleaving, leaves it as it is or adds
\* one to it.
C16_ClickCountMonotonic ==
    /\ [](\A i \in 1..Len(store) : store[i].clickCount >= 0)
    /\ [][\A i \in 1..Len(store') :
             IF i <= Len(store)
             THEN store'[i].clickCount \in {store[i].clickCount, store[i].clickCount + 1}
             ELSE store'[i].clickCount = 0]_vars

\* a record created in this run has been resolved once
C16_Witness ==
    /\ Len(store) > Len(last.preStore)
    /\ store[Len(store)].clickCount = 1
    /\ \E p \in Procs :
          /\ procs[p].op = "GetOriginalURL"
          /\ procs[p].pc = "done"
          /\ procs[p].code = store[Len(store)].shortCode
          /\ procs[p].err = "nil"

\* C17: no step removes a record or changes a record's originalURL,
\* shortCode, createdAt, expiresAt or isActive; an existing record changes
\* only in its clickCount.
C17_RecordsFrozen ==
    [][\A i \in 1..Len(store) :
          /\ i <= Len(store')
          /\ store'[i] = [store[i] EXCEPT !.clickCount = store'[i].clickCount]]_vars

\* a record with an expiry has been resolved and another record created
C17_Witness ==
    /\ Len(store) > Len(last.preStore)
    /\ store[1].clickCount > last.preStore[1].clickCount
    /\ store[1].expiresAt # <<>>
    /\ store[1] = [last.preStore[1] EXCEPT !.clickCount = store[1].clickCount]

\* the codes local generation can return
GeneratedCodes == {generateShortCode(b) : b \in RandomBytes}

\* C18: GetShortCode never returns an error and never an empty code; when
\* the queue is unreachable or empty it returns a locally generated code, and
\* ShortenURL never fails for want of a code.
C18_GetShortCodeNeverFails ==
    /\ last.op = "GetShortCode"
       => /\ last.err = "nil"
          /\ last.out # <<>>
          /\ (last.trace[1][2] # "nil" \/ last.prePool = <<>>)
             => /\ last.trace = <<last.trace[1], <<"generate", "nil">>>>
                /\ last.out \in GeneratedCodes
    /\ last.op = "ShortenURL" => last.err # "failed to generate short code"

\* the queue holds codes and cannot be reached
C18_Witness ==
    /\ last.op = "GetShortCode"
    /\ last.trace[1] = <<"LPop", "redis unavailable">>
    /\ last.prePool # <<>>
    /\ last.err = "nil"
    /\ last.out \in GeneratedCodes

URLSafeChars == {Base64URL[i] : i \in 1..Len(Base64URL)}

URLSafe(code) == \A k \in 1..Len(code) : code[k] \in URLSafeChars

\* the latest call generated a code locally
Generated ==
    \E k \in 1..Len(last.trace) : last.trace[k] = <<"generate", "nil">>

C21_RedirectStatus ==
    last.op = "GetOriginalURL"
    => /\ WithCode(last.preStore, last.code) = {}
          => RedirectURLStatus(last.err) = 404
       /\ \A i \in WithCode(last.preStore, last.code) :
             LET r == last.preStore[i]
             IN  IF ~r.isActive \/ (r.expiresAt # <<>> /\ r.expiresAt[1] < last.preNow)
                 THEN RedirectURLStatus(last.err) = 410
                 ELSE /\ RedirectURLStatus(last.err) = 307
                      /\ last.out = r.originalURL

\* an active record past its expiry: 410
C21_Witness ==
    /\ last.op = "GetOriginalURL"
    /\ last.err = "ErrURLExpired"
    /\ RedirectURLStatus(last.err) = 410
    /\ \E i \in WithCode(last.preStore, last.code) : last.preStore[i].isActive

\* the failures of the business rules
BusinessErrors ==
    {"ErrInvalidURL", "ErrURLNotFound", "ErrURLExpired", "ErrURLInactive"}

\* C22: when the request's context is cancelled or its deadline passes
\* during a store call (the driver then returns an error that is not
\* ErrNoDocuments), the operation returns a failure that is none of
\* NotFound, Expired, Inactive and InvalidURL.
C22_CancellationDistinct ==
    /\ (/\ last.op \in {"GetOriginalURL", "GetStats"}
        /\ last.trace[1] = <<"FindByCode", "store error">>)
       => /\ last.err # "nil"
          /\ last.err \notin BusinessErrors
    /\ (/\ last.op = "ShortenURL"
        /\ last.trace # <<>>
        /\ last.trace[Len(last.trace)] = <<"InsertOne", "store error">>)
       => /\ last.err # "nil"
          /\ last.err \notin BusinessErrors

\* C23 as stated: a ShortenURL(U) call without an expiry duration that
\* succeeds with shortCode c is followed by a GetOriginalURL(c) that returns
\* exactly U.
C23_RoundTripNoExpiryRequested ==
    (/\ last.op = "GetOriginalURL"
     /\ prev # <<>>
     /\ prev[1].expiresIn = <<>>
     /\ prev[1].shortCode = last.code)
    => /\ last.err = "nil"
       /\ last.out = prev[1].url

\* the fields of a stored record that say where its code leads
Mapping(r) ==
    [originalURL |-> r.originalURL, shortCode |-> r.shortCode, expiresAt |-> r.expiresAt]

\* C23: if ShortenURL(U) succeeds returning a record with shortCode c that
\* carries no expiresAt, then GetOriginalURL(c) returns exactly U and the
\* HTTP layer redirects (307) to exactly U, after any sequence of other
\* operations: the returned record is held in the store with originalURL = U,
\* no later operation changes a record's originalURL, shortCode or expiresAt,
\* and a resolve of a record without expiresAt returns its originalURL.
C23_RoundTrip ==
    /\ [](/\ (last.op = "ShortenURL" /\ last.err = "nil")
             => /\ last.doc[1].originalURL = last.url
                /\ \E i \in 1..Len(store) : store[i] = last.doc[1]
          /\ \A i \in WithCode(last.preStore, last.code) :
                (/\ last.op = "GetOriginalURL"
                 /\ last.preStore[i].expiresAt = <<>>)
                => /\ last.out = last.preStore[i].originalURL
                   /\ RedirectURLStatus(last.err) = 307
          /\ (/\ last.op = "GetOriginalURL"
              /\ prev # <<>>
              /\ prev[1].shortCode = last.code
              /\ \A i \in WithCode(last.preStore, last.code) :
                    last.preStore[i].expiresAt = <<>>)
             => /\ last.out = prev[1].url
                /\ RedirectURLStatus(last.err) = 307)
    /\ [][/\ Len(store') >= Len(store)
          /\ \A i \in 1..Len(store) : Mapping(store'[i]) = Mapping(store[i])]_vars

C23_Witness ==
    /\ last.op = "GetOriginalURL"
    /\ prev # <<>>
    /\ prev[1].shortCode = last.code
    /\ prev[1].url = URL_B
    /\ last.out = URL_B
    /\ Len(store) = 2

\* C24: when the by-originalURL lookup of ShortenURL fails, the call does
\* not fail because of it: it goes on to obtain a code and to insert, and
\* its outcome is that of the insert, so that a URL that already has a
\* record can get a second one.
C24_LookupFailureProceeds ==
    (/\ last.op = "ShortenURL"
     /\ last.trace # <<>>
     /\ last.trace[1] = <<"FindByOriginal", "store error">>)
    => /\ Len(last.trace) >= 3
       /\ last.trace[2][1] = "LPop"
       /\ last.trace[Len(last.trace)][1] = "InsertOne"
       /\ last.trace[Len(last.trace)][2] = "nil"
          => /\ last.err = "nil"
             /\ Len(store) = Len(last.preStore) + 1
             /\ store[Len(store)].originalURL = last.url
       /\ last.trace[Len(last.trace)][2] # "nil"
          => /\ last.err = "failed to create short URL"
             /\ store = last.preStore

C24_Witness ==
    /\ last.op = "ShortenURL"
    /\ last.trace # <<>>
    /\ last.trace[1] = <<"FindByOriginal", "store error">>
    /\ last.err = "nil"
    /\ WithURL(last.preStore, last.url) # {}
    /\ Cardinality(WithURL(store, last.url)) = 2

\* how often the call named name occurs in a trace
Occurrences(trace, name) == Cardinality({k \in 1..Len(trace) : trace[k][1] = name})

\* C25: within one ShortenURL call the queue is asked at most once, a code is
\* generated at most once and the insert is attempted at most once; when the
\* insert fails because the code is already held by a record, the call
\* returns the creation failure and no record is written.
C25_NoRetryOnCollision ==
    last.op = "ShortenURL"
    => /\ Occurrences(last.trace, "LPop") <= 1
       /\ Occurrences(last.trace, "generate") <= 1
       /\ Occurrences(last.trace, "InsertOne") <= 1
       /\ (\E k \in 1..Len(last.trace) : last.trace[k] = <<"InsertOne", "duplicate key">>)
          => /\ last.err = "failed to create short URL"
             /\ last.doc = <<>>
             /\ store = last.preStore

C25_Witness ==
    /\ last.op = "ShortenURL"
    /\ last.trace # <<>>
    /\ last.trace[Len(last.trace)] = <<"InsertOne", "duplicate key">>
    /\ last.err = "failed to create short URL"
    /\ Occurrences(last.trace, "generate") = 1

\* the ShortenURL calls that have returned a record they inserted themselves
Inserters ==
    {p \in Procs : /\ procs[p].op = "ShortenURL"
                   /\ procs[p].pc = "done"
                   /\ procs[p].err = "nil"
                   /\ procs[p].key # <<>>}

\* C26 as stated: a record inserted by ShortenURL with an expiry duration
\* has expiresAt = createdAt + expiresAfter, createdAt being the creation
\* time.
C26_ExpiresAtFromCreatedAt ==
    \A p \in Inserters :
        procs[p].expiresIn # <<>>
        => /\ procs[p].doc[1].expiresAt # <<>>
           /\ procs[p].doc[1].expiresAt[1]
                 = procs[p].doc[1].createdAt + procs[p].expiresIn[1]

\* C26: every record inserted by ShortenURL has a non-zero createdAt that
\* the repository read from the clock (not after the current time),
\* isActive = true and clickCount = 0; without an expiry duration it has no
\* expiresAt, and with one its expiresAt is expiresAfter added to a clock
\* reading that ShortenURL took before the repository read createdAt, so
\* that expiresAt - expiresAfter is not after createdAt.
C26_InsertedRecord ==
    \A p \in Inserters :
        LET d == procs[p].doc[1]
        IN  /\ d.createdAt # 0
            /\ d.createdAt <= now
            /\ d.isActive
            /\ d.clickCount = 0
            /\ d.originalURL = procs[p].url
            /\ d.shortCode = procs[p].key
            /\ procs[p].expiresIn = <<>> => d.expiresAt = <<>>
            /\ procs[p].expiresIn # <<>>
               => /\ d.expiresAt # <<>>
                  /\ d.expiresAt[1] - procs[p].expiresIn[1] <= d.createdAt
                  /\ d.expiresAt[1] - procs[p].expiresIn[1] >= 1
            /\ \E i \in WithCode(store, d.shortCode) :
                  [store[i] EXCEPT !.clickCount = 0] = d

C26_Witness ==
    \E p \in Inserters :
        /\ procs[p].expiresIn # <<>>
        /\ procs[p].doc[1].expiresAt[1] - procs[p].expiresIn[1] < procs[p].doc[1].createdAt

\* the records of coll with this code that are active and past their expiry
ExpiredIn(coll, clock, shortCode) ==
    {i \in WithCode(coll, shortCode) :
        /\ coll[i].isActive
        /\ coll[i].expiresAt # <<>>
        /\ coll[i].expiresAt[1] < clock}

\* C27: once GetOriginalURL(code) has failed with ErrURLExpired, every later
\* GetOriginalURL(code) fails with ErrURLExpired and GetStats(code) keeps
\* returning the record: a resolve fails with ErrURLExpired only on an
\* active record past its expiry, a record past its expiry stays so in
\* every later state, and on such a record a resolve fails with
\* ErrURLExpired while GetStats returns it.
C27_ExpiryTerminal ==
    /\ [](/\ (last.op = "GetOriginalURL" /\ last.err = "ErrURLExpired")
             => /\ ExpiredIn(last.preStore, last.preNow, last.code) # {}
                /\ ExpiredIn(store, now, last.code) # {}
          /\ (/\ last.op = "GetOriginalURL"
              /\ ExpiredIn(last.preStore, last.preNow, last.code) # {})
             => last.err = "ErrURLExpired"
          /\ \A i \in ExpiredIn(last.preStore, last.preNow, last.code) :
                last.op = "GetStats"
                => /\ last.err = "nil"
                   /\ last.doc = <<last.preStore[i]>>
                   /\ GetStatsStatus(last.err) = 200)
    /\ [][\A c \in Codes : ExpiredIn(store, now, c) \subseteq ExpiredIn(store', now', c)]_vars

\* a resolve that fails with ErrURLExpired on a record that was already
\* past its expiry an hour earlier
C27_Witness ==
    /\ last.op = "GetOriginalURL"
    /\ last.err = "ErrURLExpired"
    /\ calls = 3
    /\ \E i \in ExpiredIn(last.preStore, last.preNow - 1, last.code) :
          last.preStore[i].createdAt < last.preNow

\* C28: every record in the store has isActive = true (the insert forces it
\* and no operation writes it afterwards), so GetOriginalURL never fails
\* with ErrURLInactive on a record created through the service.
C28_AlwaysActive ==
    /\ [](/\ \A i \in 1..Len(store) : store[i].isActive
          /\ last.op = "GetOriginalURL" => last.err # "ErrURLInactive"
          /\ last.op = "GetOriginalURL" => RedirectURLStatus(last.err) \in {307, 404, 410})
    /\ [][\A i \in 1..Len(store) : store'[i].isActive = store[i].isActive]_vars

C28_Witness ==
    /\ last.op = "GetOriginalURL"
    /\ last.err = "nil"
    /\ Len(store) = 2
    /\ \E i \in WithCode(store, last.code) :
          /\ store[i].isActive
          /\ store[i].clickCount = 1
          /\ store[i].expiresAt # <<>>

\* C29: a GetOriginalURL call that fails (ErrURLNotFound, ErrURLInactive or
\* ErrURLExpired) leaves the store as it was: it issues no update and no
\* record's clickCount is incremented.
C29_FailedResolveNoWrite ==
    (last.op = "GetOriginalURL" /\ last.err # "nil")
    => /\ last.err \in {"ErrURLNotFound", "ErrURLInactive", "ErrURLExpired"}
       /\ store = last.preStore
       /\ \A k \in 1..Len(last.trace) : last.trace[k][1] # "UpdateOne"
       /\ seen[last.code] = last.preSeen

\* a failed resolve of a record that has been clicked before
C29_Witness ==
    \E i \in WithCode(last.preStore, last.code) :
        /\ last.op = "GetOriginalURL"
        /\ last.err \in {"ErrURLInactive", "ErrURLExpired"}
        /\ last.preStore[i].clickCount = 1
        /\ store[i].clickCount = 1

\* C30: ShortenURL(U) for a URL whose record is already past its expiry
\* succeeds and returns that record, creating nothing and taking no code;
\* a GetOriginalURL of the code such a ShortenURL has just returned fails
\* with ErrURLExpired.
C30_ExpiredRecordReturned ==
    /\ (/\ last.op = "ShortenURL"
        /\ \E i \in WithURL(last.preStore, last.url) :
              ExpiredIn(last.preStore, last.preNow, last.preStore[i].shortCode) # {})
       => /\ last.err = "nil"
          /\ ShortenURLStatus(last.err) = 200
          /\ last.doc = <<last.preStore[FindByOriginal(last.preStore, last.url)]>>
          /\ ExpiredIn(store, now, last.doc[1].shortCode) # {}
          /\ store = last.preStore
          /\ pool = last.prePool
    /\ (/\ last.op = "GetOriginalURL"
        /\ prev # <<>>
        /\ prev[1].shortCode = last.code
        /\ ExpiredIn(last.preStore, last.preNow, last.code) # {})
       => /\ last.err = "ErrURLExpired"
          /\ RedirectURLStatus(last.err) = 410

\* the second ShortenURL asked for no expiry and was handed the record the
\* first one created with one; the resolve that follows fails
C30_Witness ==
    /\ last.op = "GetOriginalURL"
    /\ last.err = "ErrURLExpired"
    /\ prev # <<>>
    /\ prev[1].shortCode = last.code
    /\ prev[1].expiresIn = <<>>
    /\ Len(store) = 1
    /\ store[1].originalURL = prev[1].url

====
